---- MODULE Spec2Model ----
(***************************************************************************)
(* Idemix-style disclosure proofs (credential.go) and proof lists          *)
(* (proofs.go), modelled over a small special-RSA group.                   *)
(*                                                                         *)
(* big.Int values are TLA+ integers; a nil *big.Int is the value Nil.      *)
(* Products that the Go code reduces modulo N only at the end are reduced  *)
(* after every multiplication here: the residue is the same and the        *)
(* intermediate values stay small.                                         *)
(***************************************************************************)
EXTENDS Integers, Sequences, FiniteSets, TLC

\* ------------------------------------------------------------------ bounds

MaxBuilders == 2   \* builders created before BuildProofList runs
RngBudget == 3     \* largest number of good samples left once the RNG is failing
MaxTamper == 1     \* fields of a proof list an adversary rewrites before Verify

\* --------------------------------------------------------------- nil, misc

Nil == -1000000

IsNil(x) == x = Nil

Range(s) == {s[i] : i \in 1..Len(s)}

Max(a, b) == IF a >= b THEN a ELSE b

\* -------------------------------------------------------------- parameters

\* SystemParameters: bit lengths. LmCommit = Lm + Lstatzk + Lh and
\* LeCommit = LePrime + Lstatzk + Lh, as in the Idemix parameter sets.
Params ==
  [Lh |-> 6, Lstatzk |-> 1, Ln |-> 7,
   Lm |-> 2, LmCommit |-> 2 + 1 + 6,
   Le |-> 5, LePrime |-> 3, LeCommit |-> 3 + 1 + 6,
   Lv |-> 9, LvCommit |-> 9 + 1 + 6,
   LvPrimeCommit |-> 7 + 2 * 1 + 6]

\* ------------------------------------------------------------- arithmetic

RECURSIVE Exp(_, _, _)
\* big.Int.Exp(x, y, m) for y >= 0
Exp(x, y, m) ==
  IF y = 0 THEN 1 % m
  ELSE IF y % 2 = 0 THEN Exp((x * x) % m, y \div 2, m)
  ELSE ((x % m) * Exp((x * x) % m, y \div 2, m)) % m

\* big.Int.ModInverse(x, m); Nil when x has no inverse
ModInverse(x, m) ==
  IF \E y \in 1..(m - 1) : (x * y) % m = 1
  THEN CHOOSE y \in 1..(m - 1) : (x * y) % m = 1
  ELSE Nil

\* modPow: modular exponentiation, negative exponents via the inverse
modPow(x, y, m) ==
  IF y < 0 THEN Exp(ModInverse(x, m), 0 - y, m) ELSE Exp(x, y, m)

RECURSIVE hashFold(_, _, _)
hashFold(h, input, i) ==
  IF i > Len(input) THEN h
  ELSE hashFold((h * 31 + input[i] + 1) % (2 ^ Params.Lh), input, i + 1)

\* hashCommit: a fixed hash of the list of integers (its length and its
\* elements, in order) to an integer of Lh bits
hashCommit(input) == hashFold((Len(input) + 7) % (2 ^ Params.Lh), input, 1)

\* proofs.go createChallenge: context, the contributions, nonce
createChallenge(context, nonce, contributions) ==
  hashCommit(<<context>> \o contributions \o <<nonce>>)

\* ------------------------------------------------------------ public keys

ZeroBased(s) == [i \in 0..(Len(s) - 1) |-> s[i + 1]]

PkN == 7 * 11

\* S generates the quadratic residues modulo PkN (a group of order 15);
\* Z and the bases R[i] are powers of S.
Pk1 ==
  [N |-> PkN, S |-> 4, Z |-> Exp(4, 2, PkN),
   R |-> ZeroBased(<<Exp(4, 3, PkN), Exp(4, 4, PkN), Exp(4, 7, PkN)>>),
   Params |-> Params]

Pk2 ==
  [N |-> PkN, S |-> 4, Z |-> Exp(4, 11, PkN),
   R |-> ZeroBased(<<Exp(4, 13, PkN), Exp(4, 1, PkN), Exp(4, 8, PkN)>>),
   Params |-> Params]

PublicKeys == {Pk1, Pk2}

RECURSIVE ProdR(_, _, _, _)
\* PROD_{k >= i} R[idx[k]]^{exps[idx[k]]} mod N, in the order of idx
ProdR(pk, idx, exps, i) ==
  IF i > Len(idx) THEN 1
  ELSE (modPow(pk.R[idx[i]], exps[idx[i]], pk.N) * ProdR(pk, idx, exps, i + 1)) % pk.N

AllIndices(n) == [i \in 1..n |-> i - 1]

\* The CL verification equation: A^e * S^v * PROD R[i]^{m[i]} = Z (mod N)
ValidCL(pk, sig, attrs) ==
  LET n == Cardinality(DOMAIN attrs)
  IN (modPow(sig.A, sig.E, pk.N) * modPow(pk.S, sig.V, pk.N)
        * ProdR(pk, AllIndices(n), attrs, 1)) % pk.N = pk.Z

\* ------------------------------------------------------------ credentials

\* The issuer's signature on attrs with the given e and v
Issue(pk, attrs, e, v) ==
  [A |-> CHOOSE a \in 1..(pk.N - 1) :
           /\ \E x \in 1..(pk.N - 1) : (x * x) % pk.N = a
           /\ ValidCL(pk, [A |-> a, E |-> e, V |-> v], attrs),
   E |-> e, V |-> v]

MakeCredential(pk, attrs, e, v) ==
  [Signature |-> Issue(pk, ZeroBased(attrs), e, v), Pk |-> pk,
   Attributes |-> ZeroBased(attrs)]

\* Attributes[0] is the holder's secret key. CredA and CredB belong to one
\* holder; CredC belongs to another holder and another issuer.
CredA == MakeCredential(Pk1, <<1, 2, 3>>, 17, 5)
CredB == MakeCredential(Pk1, <<1, 0, 2>>, 19, 12)
CredC == MakeCredential(Pk2, <<2, 3, 1>>, 17, 9)

Credentials == {CredA, CredB, CredC}

NumAttributes(ic) == Cardinality(DOMAIN ic.Attributes)

\* ---------------------------------------------------------- random source

\* The random source: seed selects the next value, and once armed it fails
\* at every sample after `left` more good ones.
SampleValue(seed, bits) == IF seed = 0 THEN 0 ELSE 2 ^ bits - 1

RngOK(r, k) == ~r.armed \/ k < r.left

\* randomBigInt(bits) as the k-th sample (k = 0, 1, ...) of an operation that
\* starts with the random source in state r: Nil when the source fails
randomBigInt(r, k, bits) ==
  IF RngOK(r, k) THEN SampleValue((r.seed + k) % 2, bits) ELSE Nil

\* The random source after an operation took n samples
RngAfter(r, n) ==
  [seed |-> (r.seed + n) % 2, armed |-> r.armed,
   left |-> IF r.armed THEN Max(0, r.left - n) ELSE r.left]

\* ------------------------------------------------------------ CL signature

\* CLSignature.Randomize with the sampled r: A' = A * S^r, v' = v - e * r
Randomize(sig, pk, r) ==
  [A |-> (sig.A * modPow(pk.S, r, pk.N)) % pk.N, E |-> sig.E,
   V |-> sig.V - sig.E * r]

RandomizeBits(pk) == pk.Params.Lv - pk.Params.Ln

\* ----------------------------------------------------------- credential.go

\* check[v] = true with v outside [0, numAttributes) is a run-time panic
getUndisclosedPanics(disclosedAttributes, numAttributes) ==
  \E i \in 1..Len(disclosedAttributes) :
    disclosedAttributes[i] \notin 0..(numAttributes - 1)

getUndisclosedAttributes(disclosedAttributes, numAttributes) ==
  SelectSeq(AllIndices(numAttributes),
            LAMBDA i : i \notin Range(disclosedAttributes))

NoProof == [kind |-> "none"]
NoBuilder == [kind |-> "none"]

\* Z = A^{eCommit} * S^{vCommit} * PROD_{i in undisclosed} R_i^{aCommits[i]}
CommitZ(pk, A, eCommit, vCommit, undisclosed, aCommits) ==
  (((modPow(A, eCommit, pk.N) * modPow(pk.S, vCommit, pk.N)) % pk.N)
     * ProdR(pk, undisclosed, aCommits, 1)) % pk.N

\* Mutant of MakeProofD: e is not offset by 2^{Le-1} in eResponse
MakeProofD_NoOffset(c, sig, pk, eCommit, vCommit, undisclosed, aCommits, disclosed, attrs) ==
  [kind |-> "D", c |-> c, A |-> sig.A,
   eResponse |-> eCommit + c * sig.E,
   vResponse |-> vCommit + c * sig.V,
   aResponses |-> [v \in Range(undisclosed) |-> aCommits[v] + c * attrs[v]],
   aDisclosed |-> [v \in Range(disclosed) |-> attrs[v]]]

\* The responses and the disclosed values of a ProofD for challenge c
MakeProofD(c, sig, pk, eCommit, vCommit, undisclosed, aCommits, disclosed, attrs) ==
  LET ePrime == sig.E - 2 ^ (pk.Params.Le - 1)
  IN [kind |-> "D", c |-> c, A |-> sig.A,
      eResponse |-> eCommit + c * ePrime,
      vResponse |-> vCommit + c * sig.V,
      aResponses |-> [v \in Range(undisclosed) |-> aCommits[v] + c * attrs[v]],
      aDisclosed |-> [v \in Range(disclosed) |-> attrs[v]]]

\* IdemixCredential.CreateDisclosureProof, started with the random source in
\* state r. status "panic": the call does not return.
CreateDisclosureProof(ic, disclosedAttributes, context, nonce1, r) ==
  LET n == NumAttributes(ic)
      pk == ic.Pk
      undisclosed == getUndisclosedAttributes(disclosedAttributes, n)
      rr == randomBigInt(r, 0, RandomizeBits(pk))
      randSig == Randomize(ic.Signature, pk, rr)
      eCommit == randomBigInt(r, 1, pk.Params.LeCommit)
      vCommit == randomBigInt(r, 2, pk.Params.LvCommit)
      aCommits == [v \in Range(undisclosed) |->
                     randomBigInt(r, 2 + (CHOOSE i \in 1..Len(undisclosed) : undisclosed[i] = v),
                                  pk.Params.LmCommit)]
      taken == 3 + Len(undisclosed)
      Z == CommitZ(pk, randSig.A, eCommit, vCommit, undisclosed, aCommits)
      c == hashCommit(<<context, randSig.A, Z, nonce1>>)
  IN IF getUndisclosedPanics(disclosedAttributes, n)
     THEN [status |-> "panic", samples |-> 0, proof |-> NoProof, z |-> Nil]
     ELSE IF IsNil(rr)
     THEN [status |-> "panic", samples |-> 1, proof |-> NoProof, z |-> Nil]
     ELSE IF \/ IsNil(eCommit)
             \/ IsNil(vCommit)
             \/ \E v \in Range(undisclosed) : IsNil(aCommits[v])
     THEN [status |-> "panic", samples |-> taken, proof |-> NoProof, z |-> Nil]
     ELSE [status |-> "ok", samples |-> taken, z |-> Z,
           proof |-> MakeProofD(c, randSig, pk, eCommit, vCommit, undisclosed,
                                aCommits, disclosedAttributes, ic.Attributes)]

\* IdemixCredential.CreateDisclosureProofBuilder
CreateDisclosureProofBuilder(ic, disclosedAttributes, r) ==
  LET n == NumAttributes(ic)
      pk == ic.Pk
      undisclosed == getUndisclosedAttributes(disclosedAttributes, n)
      rr == randomBigInt(r, 0, RandomizeBits(pk))
  IN IF IsNil(rr)
     THEN [status |-> "panic", samples |-> 1, builder |-> NoBuilder]
     ELSE IF getUndisclosedPanics(disclosedAttributes, n)
     THEN [status |-> "panic", samples |-> 3, builder |-> NoBuilder]
     ELSE [status |-> "ok", samples |-> 3 + Len(undisclosed),
           builder |->
             [kind |-> "D", pk |-> pk,
              randomizedSignature |-> Randomize(ic.Signature, pk, rr),
              eCommit |-> randomBigInt(r, 1, pk.Params.LeCommit),
              vCommit |-> randomBigInt(r, 2, pk.Params.LvCommit),
              attrRandomizers |->
                [v \in Range(undisclosed) |->
                   randomBigInt(r, 2 + (CHOOSE i \in 1..Len(undisclosed) : undisclosed[i] = v),
                                pk.Params.LmCommit)],
              z |-> Nil,
              disclosedAttributes |-> disclosedAttributes,
              undisclosedAttributes |-> undisclosed,
              attributes |-> ic.Attributes]]

\* Mutant of DCommitSet: the builder keeps its own randomizer for index 0
DCommitSet_KeepOwn(d, skRandomizer) ==
  [d EXCEPT !.attrRandomizers = d.attrRandomizers @@ (0 :> skRandomizer)]

\* DisclosureProofBuilder.Commit: the builder after attrRandomizers[0] is set
DCommitSet(d, skRandomizer) ==
  [d EXCEPT !.attrRandomizers = (0 :> skRandomizer) @@ d.attrRandomizers]

\* modPow on a nil exponent is a nil dereference
DCommitPanics(d, skRandomizer) ==
  LET e == DCommitSet(d, skRandomizer)
  IN \/ IsNil(e.eCommit)
     \/ IsNil(e.vCommit)
     \/ \E v \in Range(e.undisclosedAttributes) : IsNil(e.attrRandomizers[v])

\* DisclosureProofBuilder.Commit: the builder once Commit has returned
DCommit(d, skRandomizer) ==
  LET e == DCommitSet(d, skRandomizer)
  IN [e EXCEPT !.z = CommitZ(e.pk, e.randomizedSignature.A, e.eCommit, e.vCommit,
                             e.undisclosedAttributes, e.attrRandomizers)]

\* DisclosureProofBuilder.Commit: the values it returns
DCommitValues(d) == <<d.randomizedSignature.A, d.z>>

DCreateProofPanics(d) ==
  \/ IsNil(d.eCommit)
  \/ IsNil(d.vCommit)
  \/ \E v \in Range(d.undisclosedAttributes) : IsNil(d.attrRandomizers[v])

\* DisclosureProofBuilder.CreateProof
DCreateProof(d, challenge) ==
  LET sig == d.randomizedSignature
      ePrime == sig.E - 2 ^ (d.pk.Params.Le - 1)
  IN [kind |-> "D", c |-> challenge, A |-> sig.A,
      eResponse |-> d.eCommit + challenge * ePrime,
      vResponse |-> d.vCommit + challenge * sig.V,
      aResponses |-> [v \in Range(d.undisclosedAttributes) |->
                        d.attrRandomizers[v] + challenge * d.attributes[v]],
      aDisclosed |-> [v \in Range(d.disclosedAttributes) |-> d.attributes[v]]]

\* ------------------------------------------------- issuance commitment (U)

\* The builder of a ProofU: it holds the secret s and the blinding vPrime of
\* the commitment U = S^{vPrime} * R[0]^{s}, and the randomizer vPrimeCommit.
MakeUBuilder(pk, s, vPrime, vPrimeCommit) ==
  [kind |-> "U", pk |-> pk, secret |-> s, vPrime |-> vPrime,
   vPrimeCommit |-> vPrimeCommit, skRandomizer |-> Nil, uCommit |-> Nil,
   u |-> (modPow(pk.S, vPrime, pk.N) * modPow(pk.R[0], s, pk.N)) % pk.N]

UCommitPanics(b, skRandomizer) == IsNil(skRandomizer) \/ IsNil(b.vPrimeCommit)

UCommit(b, skRandomizer) ==
  [b EXCEPT !.skRandomizer = skRandomizer,
            !.uCommit = (modPow(b.pk.S, b.vPrimeCommit, b.pk.N)
                           * modPow(b.pk.R[0], skRandomizer, b.pk.N)) % b.pk.N]

UCommitValues(b) == <<b.u, b.uCommit>>

UCreateProof(b, challenge) ==
  [kind |-> "U", u |-> b.u, c |-> challenge,
   vPrimeResponse |-> b.vPrimeCommit + challenge * b.vPrime,
   sResponse |-> b.skRandomizer + challenge * b.secret]

\* ---------------------------------------------------- ProofBuilder interface

CommitPanics(b, sk) ==
  IF b.kind = "D" THEN DCommitPanics(b, sk) ELSE UCommitPanics(b, sk)

\* The builder as a panicking Commit leaves it
CommitSet(b, sk) == IF b.kind = "D" THEN DCommitSet(b, sk) ELSE b

Commit(b, sk) == IF b.kind = "D" THEN DCommit(b, sk) ELSE UCommit(b, sk)

CommitValues(b) ==
  IF b.kind = "D" THEN DCommitValues(b) ELSE UCommitValues(b)

CreateProofPanics(b) ==
  IF b.kind = "D" THEN DCreateProofPanics(b)
  ELSE IsNil(b.skRandomizer) \/ IsNil(b.vPrimeCommit)

CreateProof(b, challenge) ==
  IF b.kind = "D" THEN DCreateProof(b, challenge) ELSE UCreateProof(b, challenge)

\* ------------------------------------------------------------------ ProofU

\* ProofU.correctResponseSizes
UcorrectResponseSizes(p, pk) ==
  LET maximum == 2 ^ (pk.Params.LvPrimeCommit + 1) - 1
      minimum == 0 - maximum
  IN p.vPrimeResponse >= minimum /\ p.vPrimeResponse <= maximum

\* ProofU.reconstructUcommit: U^{-c} * S^{vPrimeResponse} * R_0^{sResponse}
reconstructUcommit(p, pk) ==
  (((modPow(p.u, 0 - p.c, pk.N) * modPow(pk.S, p.vPrimeResponse, pk.N)) % pk.N)
     * modPow(pk.R[0], p.sResponse, pk.N)) % pk.N

\* ------------------------------------------------------------------ ProofD

\* Mutant of DcorrectResponseSizes: the range of eResponse is not checked
DcorrectResponseSizes_NoE(p, pk) ==
  LET maximumA == 2 ^ (pk.Params.LmCommit + 1) - 1
      minimumA == 0 - maximumA
  IN ~\E i \in DOMAIN p.aResponses :
        p.aResponses[i] < minimumA \/ p.aResponses[i] > maximumA

\* ProofD.correctResponseSizes
DcorrectResponseSizes(p, pk) ==
  LET maximumA == 2 ^ (pk.Params.LmCommit + 1) - 1
      minimumA == 0 - maximumA
      maximumE == 2 ^ (pk.Params.LeCommit + 1) - 1
      minimumE == 0 - maximumE
  IN IF \E i \in DOMAIN p.aResponses :
          p.aResponses[i] < minimumA \/ p.aResponses[i] > maximumA
     THEN FALSE
     ELSE IF p.eResponse < minimumE \/ p.eResponse > maximumE
     THEN FALSE
     ELSE TRUE

RECURSIVE SortedSeq(_)
\* The elements of a finite set of integers, ascending
SortedSeq(S) ==
  IF S = {} THEN <<>>
  ELSE LET m == CHOOSE x \in S : \A y \in S : x <= y
       IN <<m>> \o SortedSeq(S \ {m})

\* ProofD.reconstructZ. The Go maps are ranged over in no fixed order; the
\* product is commutative, and is taken here by ascending index.
reconstructZ(p, pk) ==
  LET numerator ==
        (Exp(p.A, 2 ^ (pk.Params.Le - 1), pk.N)
           * ProdR(pk, SortedSeq(DOMAIN p.aDisclosed), p.aDisclosed, 1)) % pk.N
      known == (pk.Z * ModInverse(numerator, pk.N)) % pk.N
      knownC == modPow(known, 0 - p.c, pk.N)
      Ae == modPow(p.A, p.eResponse, pk.N)
      Sv == modPow(pk.S, p.vResponse, pk.N)
      Rs == ProdR(pk, SortedSeq(DOMAIN p.aResponses), p.aResponses, 1)
  IN (((((knownC * Ae) % pk.N) * Rs) % pk.N) * Sv) % pk.N

\* --------------------------------------------------------- Proof interface

\* Proof.ChallengeContribution
ChallengeContribution(p, pk) ==
  IF p.kind = "D" THEN <<p.A, reconstructZ(p, pk)>>
  ELSE <<p.u, reconstructUcommit(p, pk)>>

\* Proof.VerifyWithChallenge
VerifyWithChallenge(p, pk, reconstructedChallenge) ==
  IF p.kind = "D"
  THEN DcorrectResponseSizes(p, pk) /\ p.c = reconstructedChallenge
  ELSE UcorrectResponseSizes(p, pk) /\ p.c = reconstructedChallenge

\* Proof.SecretKeyResponse; a map miss yields nil
SecretKeyResponse(p) ==
  IF p.kind = "D"
  THEN IF 0 \in DOMAIN p.aResponses THEN p.aResponses[0] ELSE Nil
  ELSE p.sResponse

\* ProofD.Verify and ProofU.Verify
ProofVerify(p, pk, context, nonce) ==
  VerifyWithChallenge(p, pk,
    createChallenge(context, nonce, ChallengeContribution(p, pk)))

\* --------------------------------------------------------------- ProofList

RECURSIVE GetProofULoop_CountAll(_, _, _, _)
\* Mutant of GetProofULoop: proofs of every variant are counted
GetProofULoop_CountAll(pl, n, i, count) ==
  IF i > Len(pl) THEN [proof |-> NoProof, err |-> "ErrMissingProofU"]
  ELSE IF pl[i].kind = "U" /\ count = n THEN [proof |-> pl[i], err |-> "nil"]
  ELSE GetProofULoop_CountAll(pl, n, i + 1, count + 1)

RECURSIVE GetProofULoop(_, _, _, _)
GetProofULoop(pl, n, i, count) ==
  IF i > Len(pl) THEN [proof |-> NoProof, err |-> "ErrMissingProofU"]
  ELSE IF pl[i].kind = "U"
  THEN IF count = n THEN [proof |-> pl[i], err |-> "nil"]
       ELSE GetProofULoop(pl, n, i + 1, count + 1)
  ELSE GetProofULoop(pl, n, i + 1, count)

\* ProofList.GetProofU
GetProofU(pl, n) == GetProofULoop(pl, n, 1, 0)

\* ProofList.GetFirstProofU
GetFirstProofU(pl) == GetProofU(pl, 0)

RECURSIVE challengeContributionsFrom(_, _, _)
challengeContributionsFrom(pl, publicKeys, i) ==
  IF i > Len(pl) THEN <<>>
  ELSE ChallengeContribution(pl[i], publicKeys[i])
         \o challengeContributionsFrom(pl, publicKeys, i + 1)

\* ProofList.challengeContributions
challengeContributions(pl, publicKeys) ==
  challengeContributionsFrom(pl, publicKeys, 1)

\* x.Cmp(y) != 0 on *big.Int values that may be nil. Cmp dereferences its
\* operands; on two nil pointers it returns 0 in the Go releases whose Cmp
\* first tests x == y (nilCmpZero) and is a nil dereference in the others.
CmpDiffers(x, y, nilCmpZero) ==
  IF IsNil(x) /\ IsNil(y) THEN (IF nilCmpZero THEN "no" ELSE "panic")
  ELSE IF IsNil(x) \/ IsNil(y) THEN "panic"
  ELSE IF x = y THEN "no" ELSE "yes"

RECURSIVE VerifyBoundLoop_NoSKR(_, _, _, _, _, _)
\* Mutant of VerifyBoundLoop: the secret-key responses are not compared
VerifyBoundLoop_NoSKR(pl, publicKeys, expectedChallenge, expectedSecretKeyResponse, nilCmpZero, i) ==
  IF i > Len(pl) THEN "accept"
  ELSE IF ~VerifyWithChallenge(pl[i], publicKeys[i], expectedChallenge)
  THEN "reject"
  ELSE VerifyBoundLoop_NoSKR(pl, publicKeys, expectedChallenge,
                             expectedSecretKeyResponse, nilCmpZero, i + 1)

RECURSIVE VerifyBoundLoop(_, _, _, _, _, _)
VerifyBoundLoop(pl, publicKeys, expectedChallenge, expectedSecretKeyResponse, nilCmpZero, i) ==
  IF i > Len(pl) THEN "accept"
  ELSE LET d == CmpDiffers(expectedSecretKeyResponse, SecretKeyResponse(pl[i]),
                           nilCmpZero)
       IN IF d = "panic" THEN "panic"
          ELSE IF d = "yes" \/ ~VerifyWithChallenge(pl[i], publicKeys[i], expectedChallenge)
          THEN "reject"
          ELSE VerifyBoundLoop(pl, publicKeys, expectedChallenge,
                               expectedSecretKeyResponse, nilCmpZero, i + 1)

\* Mutant of VerifyUnboundLoop: only the first proof is verified
VerifyUnboundLoop_FirstOnly(pl, publicKeys, context, nonce, i) ==
  IF i > Len(pl) THEN "accept"
  ELSE IF ~VerifyWithChallenge(pl[i], publicKeys[i],
             createChallenge(context, nonce, ChallengeContribution(pl[i], publicKeys[i])))
  THEN "reject"
  ELSE "accept"

RECURSIVE VerifyUnboundLoop(_, _, _, _, _)
VerifyUnboundLoop(pl, publicKeys, context, nonce, i) ==
  IF i > Len(pl) THEN "accept"
  ELSE IF ~VerifyWithChallenge(pl[i], publicKeys[i],
             createChallenge(context, nonce, ChallengeContribution(pl[i], publicKeys[i])))
  THEN "reject"
  ELSE VerifyUnboundLoop(pl, publicKeys, context, nonce, i + 1)

\* ProofList.Verify: "accept" (true), "reject" (false) or "panic"
ListVerify(pl, publicKeys, context, nonce, shouldBeBound, nilCmpZero) ==
  IF Len(pl) = 0 THEN "accept"
  ELSE IF Len(pl) # Len(publicKeys) THEN "reject"
  ELSE IF shouldBeBound
  THEN VerifyBoundLoop(pl, publicKeys,
         createChallenge(context, nonce, challengeContributions(pl, publicKeys)),
         SecretKeyResponse(pl[1]), nilCmpZero, 1)
  ELSE VerifyUnboundLoop(pl, publicKeys, context, nonce, 1)

\* ---------------------------------------------------------- BuildProofList

CallCommit(i, sk) == [call |-> "Commit", builder |-> i, arg |-> sk]
CallCreateProof(i, c) == [call |-> "CreateProof", builder |-> i, arg |-> c]

RECURSIVE CommitLoop(_, _, _, _, _)
\* The first loop of BuildProofList from builder i on: the builders as the
\* loop leaves them, the commitment values, the calls made
CommitLoop(bs, sk, i, values, log) ==
  IF i > Len(bs)
  THEN [panic |-> FALSE, builders |-> bs, values |-> values, log |-> log]
  ELSE IF CommitPanics(bs[i], sk)
  THEN [panic |-> TRUE, builders |-> [bs EXCEPT ![i] = CommitSet(bs[i], sk)],
        values |-> values, log |-> Append(log, CallCommit(i, sk))]
  ELSE LET b == Commit(bs[i], sk)
       IN CommitLoop([bs EXCEPT ![i] = b], sk, i + 1, values \o CommitValues(b),
                     Append(log, CallCommit(i, sk)))

RECURSIVE CreateProofLoop_Prepend(_, _, _, _, _)
\* Mutant of CreateProofLoop: each proof is put in front of the earlier ones
CreateProofLoop_Prepend(bs, challenge, i, proofs, log) ==
  IF i > Len(bs) THEN [panic |-> FALSE, proofs |-> proofs, log |-> log]
  ELSE IF CreateProofPanics(bs[i])
  THEN [panic |-> TRUE, proofs |-> proofs,
        log |-> Append(log, CallCreateProof(i, challenge))]
  ELSE CreateProofLoop_Prepend(bs, challenge, i + 1,
                               <<CreateProof(bs[i], challenge)>> \o proofs,
                               Append(log, CallCreateProof(i, challenge)))

RECURSIVE CreateProofLoop(_, _, _, _, _)
\* The second loop of BuildProofList from builder i on
CreateProofLoop(bs, challenge, i, proofs, log) ==
  IF i > Len(bs) THEN [panic |-> FALSE, proofs |-> proofs, log |-> log]
  ELSE IF CreateProofPanics(bs[i])
  THEN [panic |-> TRUE, proofs |-> proofs,
        log |-> Append(log, CallCreateProof(i, challenge))]
  ELSE CreateProofLoop(bs, challenge, i + 1,
                       Append(proofs, CreateProof(bs[i], challenge)),
                       Append(log, CallCreateProof(i, challenge)))

\* BuildProofList, started with the random source in state r
BuildProofList(params, context, nonce, proofBuilders, r) ==
  LET skCommitment == randomBigInt(r, 0, params.LmCommit)
      committed == CommitLoop(proofBuilders, skCommitment, 1, <<>>, <<>>)
      challenge == createChallenge(context, nonce, committed.values)
      created == CreateProofLoop(committed.builders, challenge, 1, <<>>, committed.log)
  IN IF committed.panic
     THEN [status |-> "panic", samples |-> 1, skCommitment |-> skCommitment,
           challenge |-> Nil, builders |-> committed.builders, proofs |-> <<>>,
           log |-> committed.log]
     ELSE IF created.panic
     THEN [status |-> "panic", samples |-> 1, skCommitment |-> skCommitment,
           challenge |-> challenge, builders |-> committed.builders,
           proofs |-> <<>>, log |-> created.log]
     ELSE [status |-> "ok", samples |-> 1, skCommitment |-> skCommitment,
           challenge |-> challenge, builders |-> committed.builders,
           proofs |-> created.proofs, log |-> created.log]

\* ================================================================== state

VARIABLES
  phase,     \* "idle", "building", "done" (prover); "received", "judged" (verifier)
  rng,       \* the random source
  builders,  \* the proof builders created so far, in order
  proofs,    \* the proof list handed to the verifier
  keys,      \* the public keys the verifier checks the list against
  context,   \* the verifier's context
  nonce,     \* the verifier's nonce
  tampers,   \* what an adversary rewrote since the list was built, in order
  last       \* the last operation: its inputs and what it returned

vars == <<phase, rng, builders, proofs, keys, context, nonce, tampers, last>>

Contexts == {0, 1}
Nonces == {2}

\* Lists of indices offered for disclosure: none, one, two (unordered), a
\* repeated one, the secret key, and an index past the last attribute
DisclosureChoices == {<<>>, <<1>>, <<2, 1>>, <<1, 1>>, <<0>>, <<0, 2>>, <<3>>}

\* Those offered to CreateDisclosureProofBuilder
BuilderDisclosureChoices == {<<1>>, <<2, 1>>, <<0>>, <<3>>}

RngFailedIn(r, samples) == r.armed /\ samples > r.left

PkOf(b) == b.pk

Init ==
  /\ phase = "idle"
  /\ rng \in {[seed |-> s, armed |-> FALSE, left |-> 0] : s \in 0..1}
  /\ builders = <<>>
  /\ proofs = <<>>
  /\ keys = <<>>
  /\ context = 0
  /\ nonce = 0
  /\ tampers = <<>>
  /\ last = [op |-> "none"]

\* The random source starts to fail: `left` more samples succeed
RngDegrade ==
  /\ phase \in {"idle", "building"}
  /\ ~rng.armed
  /\ \E left \in 0..RngBudget : rng' = [rng EXCEPT !.armed = TRUE, !.left = left]
  /\ UNCHANGED <<phase, builders, proofs, keys, context, nonce, tampers, last>>

\* A showing with the single-shot IdemixCredential.CreateDisclosureProof
ShowSingle ==
  /\ phase = "idle"
  /\ \E ic \in Credentials, disclosed \in DisclosureChoices,
        ctx \in Contexts, n \in Nonces :
       LET out == CreateDisclosureProof(ic, disclosed, ctx, n, rng)
       IN /\ last' = [op |-> "CreateDisclosureProof", cred |-> ic,
                      disclosed |-> disclosed, status |-> out.status,
                      samples |-> out.samples,
                      rngFailed |-> RngFailedIn(rng, out.samples),
                      proof |-> out.proof, z |-> out.z]
          /\ rng' = RngAfter(rng, out.samples)
          /\ proofs' = IF out.status = "ok" THEN <<out.proof>> ELSE <<>>
          /\ keys' = <<ic.Pk>>
          /\ context' = ctx
          /\ nonce' = n
  /\ phase' = "done"
  /\ UNCHANGED <<builders, tampers>>

\* IdemixCredential.CreateDisclosureProofBuilder; a panic ends the run
NewBuilder ==
  /\ phase \in {"idle", "building"}
  /\ Len(builders) < MaxBuilders
  /\ \E ic \in Credentials, disclosed \in BuilderDisclosureChoices :
       LET out == CreateDisclosureProofBuilder(ic, disclosed, rng)
       IN /\ last' = [op |-> "CreateDisclosureProofBuilder", cred |-> ic,
                      disclosed |-> disclosed, status |-> out.status,
                      samples |-> out.samples,
                      rngFailed |-> RngFailedIn(rng, out.samples),
                      builder |-> out.builder]
          /\ rng' = RngAfter(rng, out.samples)
          /\ builders' = IF out.status = "ok" THEN Append(builders, out.builder)
                         ELSE builders
          /\ phase' = IF out.status = "ok" THEN "building" ELSE "done"
  /\ UNCHANGED <<proofs, keys, context, nonce, tampers>>

\* BuildProofList over the builders created so far, in their order
BuildList ==
  /\ phase \in {"idle", "building"}
  /\ \E ctx \in Contexts, n \in Nonces :
       LET out == BuildProofList(Params, ctx, n, builders, rng)
       IN /\ last' = [op |-> "BuildProofList", before |-> builders,
                      status |-> out.status, samples |-> out.samples,
                      rngFailed |-> RngFailedIn(rng, out.samples),
                      skCommitment |-> out.skCommitment,
                      challenge |-> out.challenge, log |-> out.log]
          /\ rng' = RngAfter(rng, out.samples)
          /\ builders' = out.builders
          /\ proofs' = out.proofs
          /\ keys' = [i \in 1..Len(builders) |-> PkOf(builders[i])]
          /\ context' = ctx
          /\ nonce' = n
  /\ phase' = "done"
  /\ UNCHANGED tampers

Next == RngDegrade \/ ShowSingle \/ NewBuilder \/ BuildList

Spec == Init /\ [][Next]_vars

\* ------------------------------------------------------- claims: the prover

BadDisclosure(disclosed, n) ==
  \E i \in 1..Len(disclosed) : disclosed[i] = 0 \/ disclosed[i] \notin 0..(n - 1)

\* C1: CreateDisclosureProofBuilder fails with InvalidDisclosure, returns no
\* builder and samples nothing when the disclosed list holds index 0 or an
\* index outside [0, L).
C1_InvalidDisclosureRejected ==
  (/\ last.op = "CreateDisclosureProofBuilder"
   /\ BadDisclosure(last.disclosed, NumAttributes(last.cred)))
    => (/\ last.status = "InvalidDisclosure"
        /\ last.builder.kind = "none"
        /\ last.samples = 0)

Returned(op) == last.op = op /\ last.status = "ok"

\* Every builder of the list hides index 0, as section 4.2 requires
HidesSecret ==
  \A i \in 1..Len(last.before) : 0 \in Range(last.before[i].undisclosedAttributes)

\* Every builder of the list holds the same secret key, attribute 0
SameSecret ==
  \A i, j \in 1..Len(last.before) :
    last.before[i].attributes[0] = last.before[j].attributes[0]

ValidBuilders ==
  \A i \in 1..Len(last.before) :
    ValidCL(last.before[i].pk, last.before[i].randomizedSignature,
            last.before[i].attributes)

\* The returned list is bound: one secret-key response, one challenge, and
\* ProofList.Verify(publicKeys, context, nonce, true) accepts
ListIsBound ==
  /\ \A i, j \in 1..Len(proofs) :
       /\ ~IsNil(SecretKeyResponse(proofs[i]))
       /\ SecretKeyResponse(proofs[i]) = SecretKeyResponse(proofs[j])
  /\ \A i \in 1..Len(proofs) : proofs[i].c = last.challenge
  /\ \A nilCmpZero \in BOOLEAN :
       ListVerify(proofs, keys, context, nonce, TRUE, nilCmpZero) = "accept"

C3_HonestProofVerifies ==
  (/\ Returned("CreateDisclosureProof")
   /\ ValidCL(last.cred.Pk, last.cred.Signature, last.cred.Attributes)
   /\ 0 \notin Range(last.disclosed))
    => (/\ reconstructZ(last.proof, last.cred.Pk) = last.z
        /\ DcorrectResponseSizes(last.proof, last.cred.Pk)
        /\ ProofVerify(last.proof, last.cred.Pk, context, nonce))

C3_Witness ==
  /\ Returned("CreateDisclosureProof")
  /\ ValidCL(last.cred.Pk, last.cred.Signature, last.cred.Attributes)
  /\ last.disclosed = <<1>>
  /\ ProofVerify(last.proof, last.cred.Pk, context, nonce)

WellFormedProofD(p, attrs) ==
  /\ DOMAIN p.aDisclosed \cap DOMAIN p.aResponses = {}
  /\ DOMAIN p.aDisclosed \cup DOMAIN p.aResponses = DOMAIN attrs
  /\ 0 \in DOMAIN p.aResponses
  /\ 0 \notin DOMAIN p.aDisclosed
  /\ \A i \in DOMAIN p.aDisclosed : p.aDisclosed[i] = attrs[i]

\* C4: every ProofD that CreateDisclosureProof or CreateProof produces is
\* well-formed: aDisclosed and aResponses partition {0, ..., L-1}, index 0 is
\* a response and never disclosed, and the disclosed values are the
\* credential's.
C4_ProofDWellFormed ==
  /\ Returned("CreateDisclosureProof")
       => WellFormedProofD(last.proof, last.cred.Attributes)
  /\ Returned("BuildProofList")
       => \A i \in 1..Len(proofs) :
            WellFormedProofD(proofs[i], last.before[i].attributes)

HasNilRandomizer(b) ==
  \/ IsNil(b.eCommit)
  \/ IsNil(b.vCommit)
  \/ \E v \in DOMAIN b.attrRandomizers : IsNil(b.attrRandomizers[v])

\* C6: when the random source fails during CreateDisclosureProof,
\* CreateDisclosureProofBuilder or BuildProofList, the operation ends with
\* RngFailure and returns nothing, and no returned builder holds a nil
\* randomizer.
C6_RngFailureAborts ==
  /\ (/\ last.op \in {"CreateDisclosureProof", "CreateDisclosureProofBuilder",
                      "BuildProofList"}
      /\ last.rngFailed)
       => last.status = "RngFailure"
  /\ \A i \in 1..Len(builders) : ~HasNilRandomizer(builders[i])

RECURSIVE CommitmentsOf(_, _)
CommitmentsOf(bs, i) ==
  IF i > Len(bs) THEN <<>>
  ELSE <<bs[i].randomizedSignature.A, bs[i].z>> \o CommitmentsOf(bs, i + 1)

\* Commit on b_1 .. b_k, then CreateProof on b_1 .. b_k
ExpectedCalls(k, sk, c) ==
  [i \in 1..(2 * k) |->
     IF i <= k THEN [call |-> "Commit", builder |-> i, arg |-> sk]
     ELSE [call |-> "CreateProof", builder |-> i - k, arg |-> c]]

IsPrefix(s, t) == Len(s) <= Len(t) /\ s = SubSeq(t, 1, Len(s))

\* C10: a run of BuildProofList calls Commit once on each builder, in list
\* order, all with the one skCommitment; calls CreateProof only after the
\* last Commit, once on each builder in the same order, all with the
\* challenge H(context, commitments of b_1, ..., commitments of b_k, nonce);
\* and proof i of the returned list is the one builder i created. A run
\* that does not return made a prefix of those calls.
C10_BuildOrder ==
  last.op = "BuildProofList" =>
    LET k == Len(last.before)
        expected == ExpectedCalls(k, last.skCommitment, last.challenge)
    IN /\ IsPrefix(last.log, expected)
       /\ last.status = "ok" =>
            /\ last.log = expected
            /\ last.challenge =
                 hashCommit(<<context>> \o CommitmentsOf(builders, 1) \o <<nonce>>)
            /\ \A i \in 1..k :
                 builders[i].attrRandomizers[0] = last.skCommitment
            /\ Len(proofs) = k
            /\ \A i \in 1..k : proofs[i] = DCreateProof(builders[i], last.challenge)

C10_Witness ==
  /\ Returned("BuildProofList")
  /\ Len(last.log) = 4
  /\ proofs[1] # proofs[2]

\* =============================================================== verifier

\* A multiple of the order of the group of quadratic residues modulo PkN
\* that exceeds every response range: adding it to a response leaves every
\* reconstructed commitment as it was.
OrderMultiple == 15 * 2 ^ 13

TamperDeltas == {1, OrderMultiple}

HonestRng == [seed |-> 1, armed |-> FALSE, left |-> 0]

HonestBuilder(ic, disclosed, seed) ==
  CreateDisclosureProofBuilder(ic, disclosed, [HonestRng EXCEPT !.seed = seed]).builder

HonestProof(ic, disclosed, seed) ==
  CreateDisclosureProof(ic, disclosed, 0, 2, [HonestRng EXCEPT !.seed = seed]).proof

\* Builders of the issuance commitment of the holder of CredA and CredB
UBuilderA == MakeUBuilder(Pk1, CredA.Attributes[0], 37, 2 ^ Params.LvPrimeCommit - 1)
UBuilderB == MakeUBuilder(Pk1, CredA.Attributes[0], 11, 5)

Transcript(bs) ==
  [proofs |-> BuildProofList(Params, 0, 2, bs, HonestRng).proofs,
   keys |-> [i \in 1..Len(bs) |-> PkOf(bs[i])]]

\* What a verifier receives with context 0 and nonce 2: bound lists built by
\* BuildProofList (one holder; two holders), separately created proofs, and
\* the empty list
ReceivedTranscripts ==
  { Transcript(<<UBuilderA, HonestBuilder(CredA, <<1>>, 0)>>),
    Transcript(<<HonestBuilder(CredA, <<>>, 1), HonestBuilder(CredB, <<2, 1>>, 0)>>),
    Transcript(<<HonestBuilder(CredB, <<1>>, 1), UBuilderA, UBuilderB>>),
    Transcript(<<HonestBuilder(CredA, <<2>>, 0), HonestBuilder(CredC, <<>>, 1)>>),
    Transcript(<<HonestBuilder(CredC, <<1>>, 0)>>),
    [proofs |-> <<HonestProof(CredA, <<1>>, 0), HonestProof(CredC, <<>>, 1)>>,
     keys |-> <<Pk1, Pk2>>],
    [proofs |-> <<>>, keys |-> <<>>],
    [proofs |-> <<>>, keys |-> <<Pk1>>] }

InitVerify ==
  /\ phase = "received"
  /\ rng = HonestRng
  /\ builders = <<>>
  /\ \E t \in ReceivedTranscripts : proofs = t.proofs /\ keys = t.keys
  /\ context = 0
  /\ nonce = 2
  /\ tampers = <<>>
  /\ last = [op |-> "none"]

\* The fields of a proof an adversary may rewrite
TamperFields(p) ==
  IF p.kind = "U" THEN {<<"u", 0>>, <<"c", 0>>, <<"vPrimeResponse", 0>>, <<"sResponse", 0>>}
  ELSE {<<"A", 0>>, <<"c", 0>>, <<"eResponse", 0>>, <<"vResponse", 0>>}
         \cup {<<"aResponses", i>> : i \in DOMAIN p.aResponses}
         \cup {<<"aDisclosed", i>> : i \in DOMAIN p.aDisclosed}

FieldValue(p, f) ==
  CASE f[1] = "u" -> p.u
    [] f[1] = "A" -> p.A
    [] f[1] = "c" -> p.c
    [] f[1] = "vPrimeResponse" -> p.vPrimeResponse
    [] f[1] = "sResponse" -> p.sResponse
    [] f[1] = "eResponse" -> p.eResponse
    [] f[1] = "vResponse" -> p.vResponse
    [] f[1] = "aResponses" -> p.aResponses[f[2]]
    [] f[1] = "aDisclosed" -> p.aDisclosed[f[2]]

WithField(p, f, x) ==
  CASE f[1] = "u" -> [p EXCEPT !.u = x]
    [] f[1] = "A" -> [p EXCEPT !.A = x]
    [] f[1] = "c" -> [p EXCEPT !.c = x]
    [] f[1] = "vPrimeResponse" -> [p EXCEPT !.vPrimeResponse = x]
    [] f[1] = "sResponse" -> [p EXCEPT !.sResponse = x]
    [] f[1] = "eResponse" -> [p EXCEPT !.eResponse = x]
    [] f[1] = "vResponse" -> [p EXCEPT !.vResponse = x]
    [] f[1] = "aResponses" -> [p EXCEPT !.aResponses[f[2]] = x]
    [] f[1] = "aDisclosed" -> [p EXCEPT !.aDisclosed[f[2]] = x]

\* Group elements are replaced by another quadratic residue, integers are
\* moved by delta
TamperedValue(f, old, delta, pk) ==
  IF f[1] \in {"u", "A"} THEN (old * pk.S) % pk.N ELSE old + delta

\* The adversary rewrites one field of one proof
TamperProof ==
  /\ Len(tampers) < MaxTamper
  /\ \E i \in 1..Len(proofs), delta \in TamperDeltas :
       \E f \in TamperFields(proofs[i]) :
         LET old == FieldValue(proofs[i], f)
         IN /\ proofs' = [proofs EXCEPT
                            ![i] = WithField(@, f, TamperedValue(f, old, delta, Pk1))]
            /\ tampers' = Append(tampers, [what |-> f[1], index |-> f[2],
                                           proof |-> i, old |-> old])
  /\ last' = [op |-> "none"]
  /\ UNCHANGED <<phase, rng, builders, keys, context, nonce>>

\* The verifier checks against other keys: one replaced, or the last one missing
TamperKeys ==
  /\ Len(tampers) < MaxTamper
  /\ Len(keys) > 0
  /\ \/ \E i \in 1..Len(keys), pk \in PublicKeys :
          /\ pk # keys[i]
          /\ keys' = [keys EXCEPT ![i] = pk]
     \/ keys' = SubSeq(keys, 1, Len(keys) - 1)
  /\ tampers' = Append(tampers, [what |-> "keys", index |-> 0, proof |-> 0, old |-> 0])
  /\ last' = [op |-> "none"]
  /\ UNCHANGED <<phase, rng, builders, proofs, context, nonce>>

\* The verifier checks under another context
TamperContext ==
  /\ Len(tampers) < MaxTamper
  /\ \E ctx \in Contexts : ctx # context /\ context' = ctx
  /\ tampers' = Append(tampers, [what |-> "context", index |-> 0, proof |-> 0, old |-> 0])
  /\ last' = [op |-> "none"]
  /\ UNCHANGED <<phase, rng, builders, proofs, keys, nonce>>

\* ProofList.Verify
VerifyList ==
  /\ \E shouldBeBound \in BOOLEAN, nilCmpZero \in BOOLEAN :
       last' = [op |-> "ProofList.Verify", shouldBeBound |-> shouldBeBound,
                verdict |-> ListVerify(proofs, keys, context, nonce,
                                       shouldBeBound, nilCmpZero)]
  /\ UNCHANGED <<phase, rng, builders, proofs, keys, context, nonce, tampers>>

\* ProofD.Verify and ProofU.Verify on one element of the list
VerifyProof ==
  /\ \E i \in 1..Len(proofs) :
       /\ i <= Len(keys)
       /\ last' = [op |-> "Proof.Verify", proof |-> i,
                   verdict |-> ProofVerify(proofs[i], keys[i], context, nonce)]
  /\ UNCHANGED <<phase, rng, builders, proofs, keys, context, nonce, tampers>>

\* ProofList.GetProofU(n)
LookupProofU ==
  /\ \E n \in 0..Len(proofs) :
       LET out == GetProofU(proofs, n)
       IN last' = [op |-> "GetProofU", n |-> n, proof |-> out.proof,
                   err |-> out.err, before |-> proofs]
  /\ UNCHANGED <<phase, rng, builders, proofs, keys, context, nonce, tampers>>

\* ProofList.GetFirstProofU()
LookupFirstProofU ==
  /\ LET out == GetFirstProofU(proofs)
     IN last' = [op |-> "GetFirstProofU", n |-> 0, proof |-> out.proof,
                 err |-> out.err, before |-> proofs]
  /\ UNCHANGED <<phase, rng, builders, proofs, keys, context, nonce, tampers>>

NextVerify ==
  \/ TamperProof
  \/ TamperKeys
  \/ TamperContext
  \/ VerifyList
  \/ VerifyProof
  \/ LookupProofU
  \/ LookupFirstProofU

SpecVerify == InitVerify /\ [][NextVerify]_vars

\* ----------------------------------------------------- claims: the verifier

InResponseRange(x, bits) == x >= 0 - (2 ^ (bits + 1) - 1) /\ x <= 2 ^ (bits + 1) - 1

ResponsesInRange(p, pk) ==
  /\ \A i \in DOMAIN p.aResponses : InResponseRange(p.aResponses[i], pk.Params.LmCommit)
  /\ InResponseRange(p.eResponse, pk.Params.LeCommit)

ChallengeMatches(p, pk) ==
  p.c = hashCommit(<<context, p.A, reconstructZ(p, pk), nonce>>)

VerifiedProofD == last.op = "Proof.Verify" /\ proofs[last.proof].kind = "D"

\* C5: ProofD.Verify(pk, context, nonce) accepts exactly when every
\* aResponse and eResponse is within its range and the stored challenge c
\* equals H(context, A, reconstructZ(pk), nonce).
C5_VerifyIffRangeAndChallenge ==
  VerifiedProofD =>
    (last.verdict <=>
       (/\ ResponsesInRange(proofs[last.proof], keys[last.proof])
        /\ ChallengeMatches(proofs[last.proof], keys[last.proof])))

\* A proof whose challenge matches is rejected for a response out of range
C5_Witness ==
  /\ VerifiedProofD
  /\ ~last.verdict
  /\ ChallengeMatches(proofs[last.proof], keys[last.proof])
  /\ ~ResponsesInRange(proofs[last.proof], keys[last.proof])

VerifiedList(shouldBeBound) ==
  last.op = "ProofList.Verify" /\ last.shouldBeBound = shouldBeBound

\* C7: with as many keys as proofs, ProofList.Verify(..., false) accepts
\* exactly when every element, alone, passes its own Verify against its key,
\* the context and the nonce.
C7_UnboundIffEachAlone ==
  (VerifiedList(FALSE) /\ Len(proofs) = Len(keys)) =>
    ((last.verdict = "accept") <=>
       \A i \in 1..Len(proofs) : ProofVerify(proofs[i], keys[i], context, nonce))

\* Two proofs with different secret-key responses are accepted unbound
C7_Witness ==
  /\ VerifiedList(FALSE)
  /\ Len(proofs) = 2 /\ Len(keys) = 2
  /\ last.verdict = "accept"
  /\ SecretKeyResponse(proofs[1]) # SecretKeyResponse(proofs[2])

SharedChallenge ==
  hashCommit(<<context>> \o challengeContributions(proofs, keys) \o <<nonce>>)

IsSecretKeyTamper(t) ==
  t.what = "sResponse" \/ (t.what = "aResponses" /\ t.index = 0)

\* The list before its one rewritten field was rewritten
UntamperedProofs ==
  LET t == tampers[1]
  IN [proofs EXCEPT ![t.proof] = WithField(@, <<t.what, t.index>>, t.old)]

\* C8: ProofList.Verify(..., true) accepts exactly when the list is empty, or
\* there are as many keys as proofs and every proof passes
\* VerifyWithChallenge on the challenge rebuilt from all contributions in
\* list order and has the secret-key response of the first proof. A list of
\* two or more proofs that was accepted is rejected once the secret-key
\* response of one proof is changed.
C8_BoundIff ==
  /\ VerifiedList(TRUE) =>
       ((last.verdict = "accept") <=>
          (\/ Len(proofs) = 0
           \/ /\ Len(proofs) = Len(keys)
              /\ \A i \in 1..Len(proofs) :
                   /\ VerifyWithChallenge(proofs[i], keys[i], SharedChallenge)
                   /\ SecretKeyResponse(proofs[i]) = SecretKeyResponse(proofs[1])))
  /\ (/\ VerifiedList(TRUE)
      /\ Len(tampers) = 1
      /\ IsSecretKeyTamper(tampers[1])
      /\ Len(proofs) >= 2
      /\ ListVerify(UntamperedProofs, keys, context, nonce, TRUE, TRUE) = "accept")
       => last.verdict = "reject"

\* A changed secret-key response is rejected although every proof still
\* passes VerifyWithChallenge on the shared challenge
C8_Witness ==
  /\ VerifiedList(TRUE)
  /\ Len(tampers) = 1
  /\ tampers[1].what = "sResponse"
  /\ Len(proofs) >= 2
  /\ ListVerify(UntamperedProofs, keys, context, nonce, TRUE, TRUE) = "accept"
  /\ \A i \in 1..Len(proofs) :
       VerifyWithChallenge(proofs[i], keys[i], SharedChallenge)
  /\ last.verdict = "reject"

ProofUsOf(pl) == SelectSeq(pl, LAMBDA p : p.kind = "U")

\* C9: GetProofU(n) returns the (n+1)-th ProofU of the list, counting only
\* ProofU elements, with no error when there are more than n of them, and
\* no proof with ErrMissingProofU otherwise; GetFirstProofU() is
\* GetProofU(0); the list is unchanged.
C9_GetProofU ==
  last.op \in {"GetProofU", "GetFirstProofU"} =>
    /\ IF last.n < Len(ProofUsOf(proofs))
       THEN last.proof = ProofUsOf(proofs)[last.n + 1] /\ last.err = "nil"
       ELSE last.proof.kind = "none" /\ last.err = "ErrMissingProofU"
    /\ last.op = "GetFirstProofU" =>
         (last.n = 0 /\ [proof |-> last.proof, err |-> last.err] = GetProofU(proofs, 0))
    /\ last.before = proofs

\* The second ProofU of a list that starts with a ProofD
C9_Witness ==
  /\ last.op = "GetProofU"
  /\ last.n = 1
  /\ last.err = "nil"
  /\ proofs[1].kind = "D"
  /\ last.proof = proofs[3]

====
